---- MODULE Spec2Model ----
(***************************************************************************)
(* A model of the Raft node of src/raft_node.py: the role engine, the      *)
(* replicated log, the replication driver and the RPC handlers, for a      *)
(* cluster of NumNodes nodes that talk over an unreliable network.         *)
(*                                                                         *)
(* Every RPC is one asyncio task of the sending node.  A task is created   *)
(* ("new"), builds and posts its request when it first runs ("sent"),      *)
(* gets the peer's reply ("resp") and processes it ("done"/"ok"/"no").     *)
(* The two handlers run without suspension (cache.apply_command never      *)
(* suspends), so each is one step.                                         *)
(***************************************************************************)
EXTENDS Integers, Sequences, FiniteSets, TLC

VARIABLES
    state,          \* RaftNode.state
    current_term,   \* RaftNode.current_term
    voted_for,      \* RaftNode.voted_for (None is 0)
    log,            \* RaftNode.log: sequence of [term, command]
    commit_index,   \* RaftNode.commit_index
    last_applied,   \* RaftNode.last_applied
    next_index,     \* RaftNode.next_index
    match_index,    \* RaftNode.match_index
    task,           \* the RPC tasks of each node, by kind and peer
    electing,       \* node is inside _start_election
    hbround,        \* node's heartbeat loop is inside _send_heartbeats
    proposing,      \* the entry propose_command waits for (index 0: none), and
                    \* whether the node has been cut off since it was proposed
    msgs,           \* requests on the wire
    isolated,       \* nodes cut off from the network
    applied,        \* commands handed to on_commit_callback, by index
    cache,          \* DistributedCache.cache of each node: entries in dict order
    now,            \* time.time() of each node
    disk,           \* the cache file of each node (cache_<node>.json)
    stream,         \* the committed commands, when the nodes are fed them directly
    lastget,        \* the DistributedCache.get of the last step and what it found
    last_heartbeat, \* RaftNode.last_heartbeat: how often it has been assigned
    elected,        \* history: <<term, node>> of every _become_leader
    acks,           \* history: outcomes of _replicate_entry that counted a majority
    minority,       \* history: commands of the writes that ran on a cut off node
    heard,          \* history: leader_id of the last AppendEntries each node accepted
    answers,        \* history: the answers to writes sent to nodes that do not lead
    replied,        \* history: term, vote and log of each node at its last RPC reply
    restarts,       \* history: what each restart found and what it started from
    used,           \* how many timeouts, proposals, heartbeat rounds, failures so far
    env             \* the environment of the run: its budgets (never changes)

vars == <<state, current_term, voted_for, log, commit_index, last_applied,
          next_index, match_index, task, electing, hbround, proposing, msgs,
          isolated, applied, cache, now, disk, stream, lastget, elected,
          acks, minority, heard, answers, replied, restarts,
          last_heartbeat, used, env>>

NumNodes == 3
MaxTerm == 2
MaxLogLen == 2
MaxElections == 2
MaxProposals == 2
MaxHeartbeats == 1

Nodes == 1..NumNodes
Commands == 1..MaxProposals
None == 0
Skipped == 0
Kinds == {"rv", "hb", "pr"}

Peers(n) == Nodes \ {n}

MajorityHalf == NumNodes \div 2

MajorityAll == NumNodes

\* majority = (len(self.cluster_nodes) // 2) + 1
Majority == (NumNodes \div 2) + 1

Min(a, b) == IF a < b THEN a ELSE b
Max(a, b) == IF a > b THEN a ELSE b

ObservedTermOwn(term, ct) == ct

ObservedTermLatest(term, ct) == term

\* The term a node holds after it has seen `term` in a request or a reply:
\* every "if term > self.current_term: self.current_term = term".
ObservedTerm(term, ct) == IF term > ct THEN term ELSE ct

LastTerm(lg) == IF Len(lg) > 0 THEN lg[Len(lg)].term ELSE 0

IdleTask == [st |-> "idle", prev |-> 0, nent |-> 0, rterm |-> 0, rok |-> "none",
             term |-> 0]
NewTask == [IdleTask EXCEPT !.st = "new"]

NoEntry == [index |-> 0, term |-> 0, command |-> 0, cut |-> FALSE]

NoneUsed == [elections |-> 0, proposals |-> 0, heartbeats |-> 0, failures |-> 0,
             partitions |-> 0, restarts |-> 0, clients |-> 0]

\* The k-th election timeout of a run fires on a node of electors[k], and
\* the k-th client write carries a command of commands[k]: the writes are
\* numbered, each command being the number of its write.
Env == [electors |-> [k \in 1..MaxElections |-> 1..Min(k, NumNodes)],
        commands |-> [k \in Commands |-> {k}],
        heartbeats |-> MaxHeartbeats, failures |-> 0,
        orphans |-> 0, partitions |-> 0, cuttable |-> {},
        restarts |-> 0, restartable |-> {}, clients |-> 0,
        replicas |-> {}, readers |-> {}, ticks |-> 0, endless |-> FALSE,
        timers |-> FALSE, built |-> FALSE, terms |-> MaxTerm,
        loglen |-> MaxLogLen, gap |-> FALSE]

(***************************************************************************)
(* The cache (src/cache.py).  A cache is the sequence of its entries in    *)
(* the order of the dict, which is the order of insertion: a key that is   *)
(* set again keeps its place, a key deleted and set again goes last.       *)
(* A command of the log is the number of a write; Operation gives the      *)
(* request the write carries.                                              *)
(***************************************************************************)
MaxCacheSize == 2

CacheKeys == {"a", "b", "c"}

CacheCommands == 1..7

Operation(c) ==
    CASE c = 1 -> [operation |-> "set", key |-> "a", value |-> c, ttl |-> None]
      [] c = 2 -> [operation |-> "set", key |-> "a", value |-> c, ttl |-> None]
      [] c = 3 -> [operation |-> "set", key |-> "b", value |-> c, ttl |-> None]
      [] c = 4 -> [operation |-> "set", key |-> "c", value |-> c, ttl |-> None]
      [] c = 5 -> [operation |-> "delete", key |-> "a", value |-> None, ttl |-> None]
      [] c = 6 -> [operation |-> "clear", key |-> None, value |-> None, ttl |-> None]
      [] c = 7 -> [operation |-> "set", key |-> "a", value |-> c, ttl |-> 1]
      [] OTHER -> [operation |-> "set", key |-> "b", value |-> c, ttl |-> None]

KeysOf(c) == {c[i].key : i \in 1..Len(c)}

EntryOf(c, k) == c[CHOOSE i \in 1..Len(c) : c[i].key = k]

Without(c, k) == SelectSeq(c, LAMBDA e : e.key # k)

\* CacheEntry.__init__ at time t.
CacheEntry(k, v, ttl, t) ==
    [key |-> k, value |-> v, accessed_at |-> t,
     expires_at |-> IF ttl # None THEN t + ttl ELSE None]

IsExpiredNever(e, t) == FALSE

\* CacheEntry.is_expired at time t.
IsExpired(e, t) == e.expires_at # None /\ t > e.expires_at

\* min(self.cache.keys(), key=accessed_at): the first of the least.
LruKey(c) ==
    LET i == CHOOSE i \in 1..Len(c) :
                 /\ \A j \in 1..Len(c) : c[i].accessed_at <= c[j].accessed_at
                 /\ \A j \in 1..(i - 1) : c[j].accessed_at > c[i].accessed_at
    IN c[i].key

EvictEntries(c) == IF Len(c) = 0 THEN c ELSE Without(c, LruKey(c))

MustEvictLate(size, present) == size > MaxCacheSize /\ ~present

\* DistributedCache.set's test for an eviction.
MustEvict(size, present) == size >= MaxCacheSize /\ ~present

CacheSet(c, k, v, ttl, t) ==
    LET kept == IF MustEvict(Len(c), k \in KeysOf(c)) THEN EvictEntries(c) ELSE c
        entry == CacheEntry(k, v, ttl, t)
    IN IF k \in KeysOf(kept)
       THEN [i \in 1..Len(kept) |-> IF kept[i].key = k THEN entry ELSE kept[i]]
       ELSE Append(kept, entry)

CacheDelete(c, k) == Without(c, k)

CacheClear(c) == << >>

\* DistributedCache.apply_command at time t.
ApplyCommand(c, command, t) ==
    LET op == Operation(command) IN
    CASE op.operation = "set" -> CacheSet(c, op.key, op.value, op.ttl, t)
      [] op.operation = "delete" -> CacheDelete(c, op.key)
      [] op.operation = "clear" -> CacheClear(c)
      [] OTHER -> c

\* The cache after on_commit_callback has run on each of `commands`;
\* nothing is handed over for an index the log does not hold.
RECURSIVE ApplyCommands(_, _, _)
ApplyCommands(c, commands, t) ==
    IF commands = << >> THEN c
    ELSE ApplyCommands(IF Head(commands) = Skipped THEN c
                       ELSE ApplyCommand(c, Head(commands), t),
                       Tail(commands), t)

\* DistributedCache.get at time t: the value returned, and the cache left.
GetValue(c, k, t) ==
    IF k \notin KeysOf(c) THEN None
    ELSE IF IsExpired(EntryOf(c, k), t) THEN None
    ELSE EntryOf(c, k).value

GetCache(c, k, t) ==
    IF k \notin KeysOf(c) THEN c
    ELSE IF IsExpired(EntryOf(c, k), t) THEN Without(c, k)
    ELSE [i \in 1..Len(c) |->
             IF c[i].key = k THEN [c[i] EXCEPT !.accessed_at = t] ELSE c[i]]

\* _cleanup_expired and get_all_keys at time t.
Unexpired(c, t) == SelectSeq(c, LAMBDA e : ~IsExpired(e, t))

NoGet == [node |-> None, key |-> None, found |-> FALSE, at |-> 0,
          expires_at |-> None, stored |-> None, value |-> None, kept |-> FALSE]

\* The fields of a node that the log of a run depends on after a restart.
Durable(term, vote, lg) == [term |-> term, vote |-> vote, log |-> lg]

InitNodes ==
    /\ state = [n \in Nodes |-> "follower"]
    /\ current_term = [n \in Nodes |-> 0]
    /\ voted_for = [n \in Nodes |-> None]
    /\ log = [n \in Nodes |-> << >>]
    /\ commit_index = [n \in Nodes |-> 0]
    /\ last_applied = [n \in Nodes |-> 0]
    /\ next_index = [n \in Nodes |-> [p \in Nodes |-> 1]]
    /\ match_index = [n \in Nodes |-> [p \in Nodes |-> 0]]
    /\ task = [n \in Nodes |-> [k \in Kinds |-> [p \in Nodes |-> IdleTask]]]
    /\ electing = [n \in Nodes |-> FALSE]
    /\ hbround = [n \in Nodes |-> FALSE]
    /\ proposing = [n \in Nodes |-> NoEntry]
    /\ msgs = {}
    /\ isolated = {}
    /\ applied = [n \in Nodes |-> << >>]
    /\ cache = [n \in Nodes |-> << >>]
    /\ now = [n \in Nodes |-> 0]
    /\ disk = [n \in Nodes |-> << >>]
    /\ stream = << >>
    /\ lastget = NoGet
    /\ last_heartbeat = [n \in Nodes |-> 0]
    /\ elected = {}
    /\ acks = {}
    /\ minority = {}
    /\ heard = [n \in Nodes |-> None]
    /\ answers = {}
    /\ replied = [n \in Nodes |-> Durable(0, None, << >>)]
    /\ restarts = {}
    /\ used = NoneUsed

Init == InitNodes /\ env = Env

(***************************************************************************)
(* The network.                                                            *)
(***************************************************************************)
Orphans == {m \in msgs : ~m.live}

\* Requests whose sending task is given up (timeout, cancellation): each is
\* either lost or stays on the wire with nobody waiting for its reply.
Abandon(ms) ==
    {kept \in SUBSET ms : Cardinality(Orphans) + Cardinality(kept) <= env.orphans}

Orphaned(ms) == {[m EXCEPT !.live = FALSE] : m \in ms}

LiveRequests(n, k, ps) ==
    {m \in msgs : m.live /\ m.from = n /\ m.tk = k /\ m.to \in ps}

Connected(a, b) == a \notin isolated /\ b \notin isolated

\* A created task runs before anything else of the run does, unless the
\* environment lets other steps into the gap between create_task and the
\* task's first step.
NoNewTask == \A n \in Nodes : \A k \in Kinds : \A p \in Nodes : task[n][k][p].st # "new"
Scheduled == env.gap \/ NoNewTask

(***************************************************************************)
(* Elections.                                                              *)
(***************************************************************************)
\* self.last_heartbeat = time.time() on node n; the runs that watch the
\* election timers count the assignments.
ResetTimer(n) ==
    IF env.timers THEN [last_heartbeat EXCEPT ![n] = @ + 1]
    ELSE last_heartbeat

\* _election_timeout_loop and the head of _start_election.
ElectionTimeout(n) ==
    /\ Scheduled
    /\ state[n] # "leader"
    /\ ~electing[n]
    /\ current_term[n] < env.terms
    /\ used.elections < Len(env.electors)
    /\ n \in env.electors[used.elections + 1]
    /\ used' = [used EXCEPT !.elections = @ + 1]
    /\ state' = [state EXCEPT ![n] = "candidate"]
    /\ current_term' = [current_term EXCEPT ![n] = @ + 1]
    /\ voted_for' = [voted_for EXCEPT ![n] = n]
    /\ electing' = [electing EXCEPT ![n] = TRUE]
    /\ task' = [task EXCEPT ![n]["rv"] =
                    [p \in Nodes |-> IF p = n THEN IdleTask ELSE NewTask]]
    /\ last_heartbeat' = ResetTimer(n)
    /\ UNCHANGED <<env, heard, answers, replied, restarts, cache, now, disk,
                   stream, lastget, minority, log, commit_index, last_applied,
                   next_index, match_index, hbround, proposing, msgs,
                   isolated, applied, elected, acks>>

RequestVoteRequest(n, p) ==
    [type |-> "rv", tk |-> "rv", from |-> n, to |-> p, live |-> TRUE,
     term |-> current_term[n], candidate_id |-> n,
     last_log_index |-> Len(log[n]), last_log_term |-> LastTerm(log[n])]

\* The vote tasks start: each _request_vote builds and posts its request.
BuildVoteRequests(n) ==
    LET new == {p \in Peers(n) : task[n]["rv"][p].st = "new"} IN
    /\ new # {}
    /\ msgs' = msgs \cup {RequestVoteRequest(n, p) : p \in new}
    /\ task' = [task EXCEPT ![n]["rv"] =
                    [p \in Nodes |-> IF p \in new THEN [@[p] EXCEPT !.st = "sent"]
                                     ELSE @[p]]]
    /\ UNCHANGED <<env, last_heartbeat, heard, answers, replied, restarts,
                   cache, now, disk, stream, lastget, minority, used, state,
                   current_term, voted_for, log, commit_index, last_applied,
                   next_index, match_index, electing, hbround, proposing,
                   isolated, applied, elected, acks>>

LogUpToDateStrict(last_log_index, last_log_term, lg) ==
    \/ last_log_term > LastTerm(lg)
    \/ (last_log_term = LastTerm(lg) /\ last_log_index > Len(lg))

LogUpToDate(last_log_index, last_log_term, lg) ==
    \/ last_log_term > LastTerm(lg)
    \/ (last_log_term = LastTerm(lg) /\ last_log_index >= Len(lg))

GrantVoteAnyVote(term, candidate_id, last_log_index, last_log_term, ct, vf, lg) ==
    /\ term >= ct
    /\ LogUpToDate(last_log_index, last_log_term, lg)

\* handle_request_vote's decision, ct and vf being the receiver's term and
\* vote after the term update.
GrantVote(term, candidate_id, last_log_index, last_log_term, ct, vf, lg) ==
    /\ term >= ct
    /\ (vf = None \/ vf = candidate_id)
    /\ LogUpToDate(last_log_index, last_log_term, lg)

\* What node n holds when it replies to an RPC; kept in the runs that
\* restart nodes.
Replied(n, term, vote, lg) ==
    IF env.restarts > 0 THEN [replied EXCEPT ![n] = Durable(term, vote, lg)]
    ELSE replied

Reply(m, rterm, rok) ==
    IF m.live
    THEN [task EXCEPT ![m.from][m.tk][m.to] =
              [@ EXCEPT !.st = "resp", !.rterm = rterm, !.rok = rok]]
    ELSE task

HandleRequestVote(m) ==
    LET n == m.to
        newer == m.term > current_term[n]
        ct == ObservedTerm(m.term, current_term[n])
        vf == IF newer THEN None ELSE voted_for[n]
        vote_granted == GrantVote(m.term, m.candidate_id, m.last_log_index,
                                  m.last_log_term, ct, vf, log[n])
    IN
    /\ m.type = "rv"
    /\ Scheduled
    /\ Connected(m.from, n)
    /\ current_term' = [current_term EXCEPT ![n] = ct]
    /\ state' = [state EXCEPT ![n] = IF newer THEN "follower" ELSE @]
    /\ voted_for' = [voted_for EXCEPT ![n] =
                        IF vote_granted THEN m.candidate_id ELSE vf]
    /\ msgs' = msgs \ {m}
    /\ task' = Reply(m, ct, IF vote_granted THEN "true" ELSE "false")
    /\ replied' = Replied(n, ct, voted_for'[n], log[n])
    /\ last_heartbeat' = IF vote_granted THEN ResetTimer(n) ELSE last_heartbeat
    /\ UNCHANGED <<env, heard, answers, restarts, cache, now, disk, stream,
                   lastget, minority, used, log, commit_index, last_applied,
                   next_index, match_index, electing, hbround, proposing,
                   isolated, applied, elected, acks>>

\* _request_vote after the reply has arrived.
HandleVoteResponse(n, p) ==
    LET t == task[n]["rv"][p]
        higher == t.rterm > current_term[n]
    IN
    /\ t.st = "resp"
    /\ Scheduled
    /\ Connected(n, p)
    /\ current_term' = [current_term EXCEPT ![n] = ObservedTerm(t.rterm, @)]
    /\ state' = [state EXCEPT ![n] = IF higher THEN "follower" ELSE @]
    /\ voted_for' = [voted_for EXCEPT ![n] = IF higher THEN None ELSE @]
    /\ task' = [task EXCEPT ![n]["rv"][p] =
                    [IdleTask EXCEPT !.st = IF t.rok = "true" THEN "ok" ELSE "no"]]
    /\ UNCHANGED <<env, last_heartbeat, heard, answers, replied, restarts,
                   cache, now, disk, stream, lastget, minority, used, log,
                   commit_index, last_applied, next_index, match_index,
                   electing, hbround, proposing, msgs, isolated, applied,
                   elected, acks>>

\* A posted RPC fails at the sender (timeout, connection error, lost reply).
RpcFail(n, k, p) ==
    /\ task[n][k][p].st \in {"sent", "resp"}
    /\ Scheduled
    /\ IF Connected(n, p)
       THEN /\ used.failures < env.failures
            /\ used' = [used EXCEPT !.failures = @ + 1]
       ELSE UNCHANGED used
    /\ task' = [task EXCEPT ![n][k][p] =
                    [IdleTask EXCEPT !.st = IF k = "rv" THEN "no" ELSE "done"]]
    /\ \E kept \in Abandon(LiveRequests(n, k, {p})) :
          msgs' = (msgs \ LiveRequests(n, k, {p})) \cup Orphaned(kept)
    /\ UNCHANGED <<env, last_heartbeat, heard, answers, replied, restarts,
                   cache, now, disk, stream, lastget, minority, state,
                   current_term, voted_for, log, commit_index, last_applied,
                   next_index, match_index, electing, hbround, proposing,
                   isolated, applied, elected, acks>>

\* _become_leader's tables.
LeaderNextIndex(n) == [p \in Nodes |-> IF p = n THEN next_index[n][p] ELSE Len(log[n]) + 1]
LeaderMatchIndex(n) == [p \in Nodes |-> IF p = n THEN match_index[n][p] ELSE 0]

\* _start_election after gather: the count, then _become_leader or not.
CountVotes(n) ==
    LET votes == 1 + Cardinality({p \in Peers(n) : task[n]["rv"][p].st = "ok"})
        won == votes >= Majority /\ state[n] = "candidate"
    IN
    /\ electing[n]
    /\ Scheduled
    /\ \A p \in Peers(n) : task[n]["rv"][p].st \in {"ok", "no"}
    /\ state' = [state EXCEPT ![n] = IF won THEN "leader" ELSE "follower"]
    /\ next_index' = [next_index EXCEPT ![n] = IF won THEN LeaderNextIndex(n) ELSE @]
    /\ match_index' = [match_index EXCEPT ![n] = IF won THEN LeaderMatchIndex(n) ELSE @]
    /\ elected' = IF won THEN elected \cup {<<current_term[n], n>>} ELSE elected
    /\ electing' = [electing EXCEPT ![n] = FALSE]
    /\ task' = [task EXCEPT ![n]["rv"] = [p \in Nodes |-> IdleTask]]
    /\ UNCHANGED <<env, last_heartbeat, heard, answers, replied, restarts,
                   cache, now, disk, stream, lastget, minority, used,
                   current_term, voted_for, log, commit_index, last_applied,
                   hbround, proposing, msgs, isolated, applied, acks>>

(***************************************************************************)
(* Log replication.                                                        *)
(***************************************************************************)
\* The sender's log as it is when a request is built; kept with the request
\* in the runs that watch what a request was built from.
BuiltFrom(n) == IF env.built THEN log[n] ELSE << >>

\* The term a request is stamped with (data['term']); kept with the task in
\* the same runs.
BuiltIn(n) == IF env.built THEN current_term[n] ELSE 0

\* _send_append_entries up to the post: the request as built from the
\* sender's fields when the task runs.
AppendEntriesRequest(n, k, p) ==
    LET prev_log_index == next_index[n][p] - 1 IN
    [type |-> "ae", tk |-> k, from |-> n, to |-> p, live |-> TRUE,
     term |-> current_term[n], leader_id |-> n,
     prev_log_index |-> prev_log_index,
     prev_log_term |-> IF prev_log_index > 0 /\ prev_log_index <= Len(log[n])
                       THEN log[n][prev_log_index].term ELSE 0,
     entries |-> IF next_index[n][p] <= Len(log[n])
                 THEN SubSeq(log[n], next_index[n][p], Len(log[n])) ELSE << >>,
     leader_commit |-> commit_index[n],
     built |-> BuiltFrom(n)]

\* The append tasks of a heartbeat or proposal round start.
BuildAppendEntries(n, k) ==
    LET new == {p \in Peers(n) : task[n][k][p].st = "new"} IN
    /\ k \in {"hb", "pr"}
    /\ new # {}
    /\ msgs' = msgs \cup {AppendEntriesRequest(n, k, p) : p \in new}
    /\ task' = [task EXCEPT ![n][k] =
                    [p \in Nodes |->
                        IF p \in new
                        THEN [@[p] EXCEPT !.st = "sent",
                                          !.prev = next_index[n][p] - 1,
                                          !.nent = Len(AppendEntriesRequest(n, k, p).entries),
                                          !.term = BuiltIn(n)]
                        ELSE @[p]]]
    /\ UNCHANGED <<env, last_heartbeat, heard, answers, replied, restarts,
                   cache, now, disk, stream, lastget, minority, used, state,
                   current_term, voted_for, log, commit_index, last_applied,
                   next_index, match_index, electing, hbround, proposing,
                   isolated, applied, elected, acks>>

\* _apply_committed_entries: the loop runs to commit_index, or raises
\* IndexError at the first index past the end of the log, last_applied
\* already advanced to it.
ApplyRaises(lg, ci, la) == la < ci /\ ci > Len(lg)

AppliedIndex(lg, ci, la) ==
    IF la >= ci THEN la
    ELSE IF ci <= Len(lg) THEN ci
    ELSE Max(la, Len(lg)) + 1

\* The commands the loop hands to on_commit_callback, in order.
NewlyApplied(lg, ci, la) ==
    LET to == AppliedIndex(lg, ci, la) IN
    [i \in 1..(to - la) |->
        IF la + i <= Len(lg) THEN lg[la + i].command ELSE Skipped]

AppliedCommands(lg, ci, la, ap) == ap \o NewlyApplied(lg, ci, la)

PrevLogOkAlways(prev_log_index, prev_log_term, lg) == TRUE

\* handle_append_entries' consistency check.
PrevLogOk(prev_log_index, prev_log_term, lg) ==
    \/ prev_log_index = 0
    \/ (prev_log_index <= Len(lg) /\ lg[prev_log_index].term = prev_log_term)

\* handle_append_entries' log update on success.
StoreEntries(lg, prev_log_index, entries) ==
    IF entries # << >>
    THEN (IF prev_log_index < Len(lg) THEN SubSeq(lg, 1, prev_log_index) ELSE lg)
         \o entries
    ELSE lg

HandleAppendEntries(m) ==
    LET n == m.to
        newer == m.term > current_term[n]
        ct == ObservedTerm(m.term, current_term[n])
        current == m.term >= ct
        success == current /\ PrevLogOk(m.prev_log_index, m.prev_log_term, log[n])
        lg == IF success THEN StoreEntries(log[n], m.prev_log_index, m.entries)
              ELSE log[n]
        advance == success /\ m.leader_commit > commit_index[n]
        ci == IF advance THEN Min(m.leader_commit, Len(lg)) ELSE commit_index[n]
        raises == advance /\ ApplyRaises(lg, ci, last_applied[n])
    IN
    /\ m.type = "ae"
    /\ Scheduled
    /\ Connected(m.from, n)
    /\ current_term' = [current_term EXCEPT ![n] = ct]
    /\ voted_for' = [voted_for EXCEPT ![n] = IF newer THEN None ELSE @]
    /\ state' = [state EXCEPT ![n] = IF current THEN "follower" ELSE @]
    /\ log' = [log EXCEPT ![n] = lg]
    /\ commit_index' = [commit_index EXCEPT ![n] = ci]
    /\ last_applied' = [last_applied EXCEPT ![n] =
                           IF advance THEN AppliedIndex(lg, ci, @) ELSE @]
    /\ applied' = [applied EXCEPT ![n] =
                      IF advance THEN AppliedCommands(lg, ci, last_applied[n], @)
                      ELSE @]
    /\ cache' = [cache EXCEPT ![n] =
                    IF advance
                    THEN ApplyCommands(@, NewlyApplied(lg, ci, last_applied[n]), now[n])
                    ELSE @]
    /\ msgs' = msgs \ {m}
    /\ task' = Reply(m, IF raises THEN 0 ELSE ct,
                     IF raises THEN "err" ELSE IF success THEN "true" ELSE "false")
    /\ replied' = Replied(n, ct, voted_for'[n], lg)
    /\ heard' = IF current /\ env.clients > 0
                THEN [heard EXCEPT ![n] = m.leader_id] ELSE heard
    /\ last_heartbeat' = IF current THEN ResetTimer(n) ELSE last_heartbeat
    /\ UNCHANGED <<env, answers, restarts, now, disk, stream, lastget,
                   minority, used, next_index, match_index, electing, hbround,
                   proposing, isolated, elected, acks>>

\* _send_append_entries after the reply has arrived.
HandleAppendResponse(n, k, p) ==
    LET t == task[n][k][p]
        ok == t.rok # "err"
        higher == ok /\ t.rterm > current_term[n]
        hb == LiveRequests(n, "hb", Nodes)
    IN
    /\ k \in {"hb", "pr"}
    /\ t.st = "resp"
    /\ Scheduled
    /\ Connected(n, p)
    /\ current_term' = [current_term EXCEPT ![n] = ObservedTerm(t.rterm, @)]
    /\ state' = [state EXCEPT ![n] = IF higher THEN "follower" ELSE @]
    /\ voted_for' = [voted_for EXCEPT ![n] = IF higher THEN None ELSE @]
    /\ match_index' = [match_index EXCEPT ![n][p] =
                          IF ok /\ ~higher /\ t.rok = "true" /\ t.nent > 0
                          THEN t.prev + t.nent ELSE @]
    /\ next_index' = [next_index EXCEPT ![n][p] =
                         IF ~ok \/ higher THEN @
                         ELSE IF t.rok = "true"
                              THEN (IF t.nent > 0 THEN t.prev + t.nent + 1 ELSE @)
                              ELSE Max(1, @ - 1)]
    /\ IF higher
       THEN \* heartbeat_task.cancel(): the running round is given up
            /\ hbround' = [hbround EXCEPT ![n] = FALSE]
            /\ \E kept \in Abandon(hb) : msgs' = (msgs \ hb) \cup Orphaned(kept)
            /\ task' = [task EXCEPT ![n] =
                           [kk \in Kinds |-> [q \in Nodes |->
                               IF kk = "hb" THEN IdleTask
                               ELSE IF kk = k /\ q = p THEN [IdleTask EXCEPT !.st = "done"]
                               ELSE @[kk][q]]]]
       ELSE /\ task' = [task EXCEPT ![n][k][p] = [IdleTask EXCEPT !.st = "done"]]
            /\ UNCHANGED <<hbround, msgs>>
    /\ UNCHANGED <<env, last_heartbeat, heard, answers, replied, restarts,
                   cache, now, disk, stream, lastget, minority, used, log,
                   commit_index, last_applied, electing, proposing, isolated,
                   applied, elected, acks>>

\* _heartbeat_loop enters _send_heartbeats.
StartHeartbeatRound(n) ==
    /\ Scheduled
    /\ state[n] = "leader"
    /\ ~hbround[n]
    /\ env.endless \/ used.heartbeats < env.heartbeats
    /\ used' = IF env.endless THEN used ELSE [used EXCEPT !.heartbeats = @ + 1]
    /\ hbround' = [hbround EXCEPT ![n] = TRUE]
    /\ task' = [task EXCEPT ![n]["hb"] =
                    [p \in Nodes |-> IF p = n THEN IdleTask ELSE NewTask]]
    /\ UNCHANGED <<env, last_heartbeat, heard, answers, replied, restarts,
                   cache, now, disk, stream, lastget, minority, state,
                   current_term, voted_for, log, commit_index, last_applied,
                   next_index, match_index, electing, proposing, msgs,
                   isolated, applied, elected, acks>>

\* _send_heartbeats returns from gather.
EndHeartbeatRound(n) ==
    /\ hbround[n]
    /\ Scheduled
    /\ \A p \in Peers(n) : task[n]["hb"][p].st = "done"
    /\ hbround' = [hbround EXCEPT ![n] = FALSE]
    /\ task' = [task EXCEPT ![n]["hb"] = [p \in Nodes |-> IdleTask]]
    /\ UNCHANGED <<env, last_heartbeat, heard, answers, replied, restarts,
                   cache, now, disk, stream, lastget, minority, used, state,
                   current_term, voted_for, log, commit_index, last_applied,
                   next_index, match_index, electing, proposing, msgs,
                   isolated, applied, elected, acks>>

IsLeaderAny(st) == TRUE

\* propose_command's test: if self.state != NodeState.LEADER: return False.
IsLeader(st) == st = "leader"

LogEntryNoTerm(term, command) == [term |-> 0, command |-> command]

\* LogEntry(term, command, index): the index is the entry's place in the log.
LogEntry(term, command) == [term |-> term, command |-> command]

\* propose_command up to the gather of _replicate_entry.
\* A node runs one propose_command at a time here (proposing[n] = NoEntry);
\* the HTTP server may run several concurrently on one node.
Propose(n, c) ==
    /\ Scheduled
    /\ IsLeader(state[n])
    /\ proposing[n] = NoEntry
    /\ Len(log[n]) < env.loglen
    /\ used.proposals < Len(env.commands)
    /\ c \in env.commands[used.proposals + 1]
    /\ used' = [used EXCEPT !.proposals = @ + 1]
    /\ log' = [log EXCEPT ![n] = Append(@, LogEntry(current_term[n], c))]
    /\ proposing' = [proposing EXCEPT ![n] =
                         [index |-> Len(log[n]) + 1, term |-> current_term[n],
                          command |-> c, cut |-> n \in isolated]]
    /\ task' = [task EXCEPT ![n]["pr"] =
                    [p \in Nodes |-> IF p = n THEN IdleTask ELSE NewTask]]
    /\ UNCHANGED <<env, last_heartbeat, heard, answers, replied, restarts,
                   cache, now, disk, stream, lastget, minority, state,
                   current_term, voted_for, commit_index, last_applied,
                   next_index, match_index, electing, hbround, msgs, isolated,
                   applied, elected, acks>>

ReplicatedCount(n, index) ==
    1 + Cardinality({p \in Peers(n) : match_index[n][p] >= index})

\* _replicate_entry after gather: the count, the commit and the apply.
ReplicateCount(n) ==
    LET index == proposing[n].index
        counted == ReplicatedCount(n, index) >= Majority
        advance == counted /\ index > commit_index[n]
        ci == IF advance THEN index ELSE commit_index[n]
        la == IF advance THEN AppliedIndex(log[n], ci, last_applied[n])
              ELSE last_applied[n]
        raises == advance /\ ApplyRaises(log[n], ci, last_applied[n])
        ap == IF advance THEN AppliedCommands(log[n], ci, last_applied[n], applied[n])
              ELSE applied[n]
    IN
    /\ index # 0
    /\ Scheduled
    /\ \A p \in Peers(n) : task[n]["pr"][p].st = "done"
    /\ commit_index' = [commit_index EXCEPT ![n] = ci]
    /\ last_applied' = [last_applied EXCEPT ![n] = la]
    /\ applied' = [applied EXCEPT ![n] = ap]
    /\ cache' = [cache EXCEPT ![n] =
                    IF advance
                    THEN ApplyCommands(@, NewlyApplied(log[n], ci, last_applied[n]), now[n])
                    ELSE @]
    /\ acks' = IF counted
               THEN acks \cup {[node |-> n, index |-> index,
                                ret |-> IF raises THEN "error" ELSE "true",
                                role |-> state[n], cterm |-> current_term[n],
                                lterm |-> IF index <= Len(log[n])
                                          THEN log[n][index].term ELSE 0,
                                advanced |-> advance, ci |-> ci, la |-> la,
                                command |-> proposing[n].command,
                                ran |-> IF index <= Len(ap) THEN ap[index]
                                        ELSE Skipped,
                                cut |-> proposing[n].cut]}
               ELSE acks
    /\ minority' = IF proposing[n].cut
                   THEN minority \cup {proposing[n].command} ELSE minority
    /\ proposing' = [proposing EXCEPT ![n] = NoEntry]
    /\ task' = [task EXCEPT ![n]["pr"] = [p \in Nodes |-> IdleTask]]
    /\ UNCHANGED <<env, last_heartbeat, heard, answers, replied, restarts,
                   now, disk, stream, lastget, used, state, current_term,
                   voted_for, log, next_index, match_index, electing, hbround,
                   msgs, isolated, elected>>

(***************************************************************************)
(* Partitions: a node is cut off from the others, and connected again.     *)
(***************************************************************************)
Isolate(n) ==
    /\ Scheduled
    /\ isolated = {}
    /\ n \in env.cuttable
    /\ used.partitions < env.partitions
    /\ used' = [used EXCEPT !.partitions = @ + 1]
    /\ isolated' = {n}
    /\ UNCHANGED <<env, last_heartbeat, heard, answers, replied, restarts,
                   cache, now, disk, stream, lastget, minority, state,
                   current_term, voted_for, log, commit_index, last_applied,
                   next_index, match_index, task, electing, hbround,
                   proposing, msgs, applied, elected, acks>>

Heal(n) ==
    /\ Scheduled
    /\ n \in isolated
    /\ isolated' = isolated \ {n}
    /\ proposing' = [proposing EXCEPT ![n] = [@ EXCEPT !.cut = FALSE]]
    /\ UNCHANGED <<env, last_heartbeat, heard, answers, replied, restarts,
                   cache, now, disk, stream, lastget, minority, used, state,
                   current_term, voted_for, log, commit_index, last_applied,
                   next_index, match_index, task, electing, hbround, msgs,
                   applied, elected, acks>>

(***************************************************************************)
(* The cache of a node on its own: the committed commands reach it in      *)
(* order (on_commit_callback), clients read it, its clock advances, and    *)
(* the persistence loop saves it.                                          *)
(***************************************************************************)
\* The next committed command is handed to the cache of node n.
ApplyCommitted(n, c) ==
    LET k == Len(applied[n]) + 1 IN
    /\ n \in env.replicas
    /\ IF k <= Len(stream)
       THEN c = stream[k] /\ UNCHANGED stream
       ELSE /\ k <= Len(env.commands)
            /\ c \in env.commands[k]
            /\ stream' = Append(stream, c)
    /\ applied' = [applied EXCEPT ![n] = Append(@, c)]
    /\ cache' = [cache EXCEPT ![n] = ApplyCommand(@, c, now[n])]
    /\ lastget' = NoGet
    /\ UNCHANGED <<env, last_heartbeat, heard, answers, replied, restarts,
                   now, disk, minority, used, state, current_term, voted_for,
                   log, commit_index, last_applied, next_index, match_index,
                   task, electing, hbround, proposing, msgs, isolated,
                   elected, acks>>

\* GET /cache/<key> on node n.
Get(n, k) ==
    /\ n \in env.readers
    /\ cache' = [cache EXCEPT ![n] = GetCache(@, k, now[n])]
    /\ lastget' = [node |-> n, key |-> k, found |-> k \in KeysOf(cache[n]),
                   at |-> now[n],
                   expires_at |-> IF k \in KeysOf(cache[n])
                                  THEN EntryOf(cache[n], k).expires_at ELSE None,
                   stored |-> IF k \in KeysOf(cache[n])
                              THEN EntryOf(cache[n], k).value ELSE None,
                   value |-> GetValue(cache[n], k, now[n]),
                   kept |-> k \in KeysOf(cache'[n])]
    /\ UNCHANGED <<env, last_heartbeat, heard, answers, replied, restarts,
                   now, disk, stream, minority, used, state, current_term,
                   voted_for, log, commit_index, last_applied, next_index,
                   match_index, task, electing, hbround, proposing, msgs,
                   isolated, applied, elected, acks>>

\* GET /cache on node n (get_all_keys).
ListKeys(n) ==
    /\ n \in env.readers
    /\ cache' = [cache EXCEPT ![n] = Unexpired(@, now[n])]
    /\ lastget' = NoGet
    /\ UNCHANGED <<env, last_heartbeat, heard, answers, replied, restarts,
                   now, disk, stream, minority, used, state, current_term,
                   voted_for, log, commit_index, last_applied, next_index,
                   match_index, task, electing, hbround, proposing, msgs,
                   isolated, applied, elected, acks>>

\* _persistence_loop: _save_to_disk on node n.
Save(n) ==
    /\ n \in env.restartable
    /\ cache' = [cache EXCEPT ![n] = Unexpired(@, now[n])]
    /\ disk' = [disk EXCEPT ![n] = cache'[n]]
    /\ lastget' = NoGet
    /\ UNCHANGED <<env, last_heartbeat, heard, answers, replied, restarts,
                   now, stream, minority, used, state, current_term,
                   voted_for, log, commit_index, last_applied, next_index,
                   match_index, task, electing, hbround, proposing, msgs,
                   isolated, applied, elected, acks>>

\* The clock of node n advances.
Tick(n) ==
    /\ n \in env.replicas
    /\ now[n] < env.ticks
    /\ now' = [now EXCEPT ![n] = @ + 1]
    /\ lastget' = NoGet
    /\ UNCHANGED <<env, last_heartbeat, heard, answers, replied, restarts,
                   cache, disk, stream, minority, used, state, current_term,
                   voted_for, log, commit_index, last_applied, next_index,
                   match_index, task, electing, hbround, proposing, msgs,
                   isolated, applied, elected, acks>>

(***************************************************************************)
(* Client writes that reach a node which is not the leader                 *)
(* (src/http_server.py: set_key, delete_key, clear_cache).                 *)
(***************************************************************************)
\* _get_leader_info.
LeaderInfo(n) == IF state[n] = "leader" THEN n ELSE None

WriteAtNonLeader(n) ==
    /\ Scheduled
    /\ state[n] # "leader"
    /\ used.clients < env.clients
    /\ used' = [used EXCEPT !.clients = @ + 1]
    /\ answers' = answers \cup
           {[node |-> n, hint |-> heard[n], leader |-> LeaderInfo(n),
             status |-> IF LeaderInfo(n) # None THEN 307 ELSE 503]}
    /\ UNCHANGED <<env, last_heartbeat, heard, replied, restarts, cache, now,
                   disk, stream, lastget, minority, state, current_term,
                   voted_for, log, commit_index, last_applied, next_index,
                   match_index, task, electing, hbround, proposing, msgs,
                   isolated, applied, elected, acks>>

(***************************************************************************)
(* Restarts: the process of a node is killed and started again.  The new   *)
(* process is RaftNode.__init__ and initialize: nothing of the old one is  *)
(* read back but the cache file.  A node restarts here between its rounds, with none of its   *)
(* requests on the wire and none addressed to it.                          *)
(***************************************************************************)
Quiet(n) ==
    /\ ~electing[n] /\ ~hbround[n] /\ proposing[n] = NoEntry
    /\ \A k \in Kinds : \A p \in Nodes : task[n][k][p].st = "idle"
    /\ \A m \in msgs : m.from # n /\ m.to # n

Restart(n) ==
    /\ Scheduled
    /\ Quiet(n)
    /\ n \in env.restartable
    /\ used.restarts < env.restarts
    /\ used' = [used EXCEPT !.restarts = @ + 1]
    /\ state' = [state EXCEPT ![n] = "follower"]
    /\ current_term' = [current_term EXCEPT ![n] = 0]
    /\ voted_for' = [voted_for EXCEPT ![n] = None]
    /\ log' = [log EXCEPT ![n] = << >>]
    /\ commit_index' = [commit_index EXCEPT ![n] = 0]
    /\ last_applied' = [last_applied EXCEPT ![n] = 0]
    /\ next_index' = [next_index EXCEPT ![n] = [p \in Nodes |-> 1]]
    /\ match_index' = [match_index EXCEPT ![n] = [p \in Nodes |-> 0]]
    /\ applied' = [applied EXCEPT ![n] = << >>]
    /\ cache' = [cache EXCEPT ![n] = Unexpired(disk[n], now[n])]
    /\ heard' = [heard EXCEPT ![n] = None]
    /\ restarts' = restarts \cup
           {[node |-> n, boot |-> used.restarts + 1, held |-> replied[n],
             got |-> Durable(current_term'[n], voted_for'[n], log'[n])]}
    /\ last_heartbeat' = ResetTimer(n)
    /\ UNCHANGED <<env, answers, replied, minority, now, disk, stream,
                   lastget, task, electing, hbround, proposing, msgs,
                   isolated, elected, acks>>

(***************************************************************************)
(* The specifications.                                                     *)
(***************************************************************************)
ElectionSteps ==
    \/ \E n \in Nodes : ElectionTimeout(n)
    \/ \E n \in Nodes : BuildVoteRequests(n)
    \/ \E m \in msgs : HandleRequestVote(m)
    \/ \E n \in Nodes : \E p \in Peers(n) : HandleVoteResponse(n, p)
    \/ \E n \in Nodes : CountVotes(n)

ReplicationSteps ==
    \/ \E n \in Nodes : \E k \in Kinds : BuildAppendEntries(n, k)
    \/ \E m \in msgs : HandleAppendEntries(m)
    \/ \E n \in Nodes : \E k \in Kinds : \E p \in Peers(n) :
           HandleAppendResponse(n, k, p)
    \/ \E n \in Nodes : ReplicateCount(n)

WriteSteps ==
    \/ \E n \in Nodes : \E c \in Commands : Propose(n, c)
    \/ ReplicationSteps

CacheWriteSteps ==
    \/ \E n \in Nodes : \E c \in CacheCommands : Propose(n, c)
    \/ ReplicationSteps

HeartbeatSteps ==
    \/ \E n \in Nodes : StartHeartbeatRound(n)
    \/ \E n \in Nodes : EndHeartbeatRound(n)

FailureSteps ==
    \E n \in Nodes : \E k \in Kinds : \E p \in Peers(n) : RpcFail(n, k, p)

CacheSteps ==
    \/ \E n \in Nodes : \E c \in CacheCommands : ApplyCommitted(n, c)
    \/ \E n \in Nodes : \E k \in CacheKeys : Get(n, k)
    \/ \E n \in Nodes : ListKeys(n)
    \/ \E n \in Nodes : Save(n)
    \/ \E n \in Nodes : Tick(n)

ClientSteps == \E n \in Nodes : WriteAtNonLeader(n)

RestartSteps == \E n \in Nodes : Restart(n)

PartitionSteps ==
    \/ \E n \in Nodes : Isolate(n)
    \/ \E n \in Nodes : Heal(n)

\* Elections and writes with heartbeats between them, on a network that
\* delivers in any order and with any delay.
Next == ElectionSteps \/ WriteSteps \/ HeartbeatSteps

Spec == Init /\ [][Next]_vars

\* One leader, elected once, on a network that cuts the leader off for a
\* while: its requests then fail, or are delivered after their sender has
\* given them up.
StableHeartbeats == 1
StableOrphans == 1
StablePartitions == 1

EnvStable == [electors |-> <<{1}>>, commands |-> Env.commands,
              heartbeats |-> StableHeartbeats, failures |-> 0,
              orphans |-> StableOrphans, partitions |-> StablePartitions,
              cuttable |-> {1}, restarts |-> 0, restartable |-> {},
              clients |-> 0, replicas |-> {}, readers |-> {}, ticks |-> 0,
              endless |-> FALSE,
              timers |-> FALSE, built |-> FALSE, terms |-> MaxTerm,
              loglen |-> MaxLogLen, gap |-> FALSE]

InitStable == InitNodes /\ env = EnvStable

NextStable ==
    ElectionSteps \/ WriteSteps \/ HeartbeatSteps \/ FailureSteps \/ PartitionSteps

SpecStable == InitStable /\ [][NextStable]_vars

\* Two elections on two nodes and two writes, on a network that loses
\* requests or delivers them after their sender has given them up.
LossyFailures == 2
LossyOrphans == 1

EnvLossy == [electors |-> <<{1}, {2}>>, commands |-> Env.commands,
             heartbeats |-> 0, failures |-> LossyFailures,
             orphans |-> LossyOrphans, partitions |-> 0, cuttable |-> {},
             restarts |-> 0, restartable |-> {}, clients |-> 0,
             replicas |-> {}, readers |-> {}, ticks |-> 0, endless |-> FALSE,
             timers |-> FALSE, built |-> FALSE, terms |-> MaxTerm,
             loglen |-> MaxLogLen, gap |-> FALSE]

InitLossy == InitNodes /\ env = EnvLossy

NextLossy == ElectionSteps \/ WriteSteps \/ FailureSteps

SpecLossy == InitLossy /\ [][NextLossy]_vars

\* Two elections on two nodes, with other steps of a node running between
\* the creation of its RPC tasks and their first step.
GapFailures == 1

EnvGap == [electors |-> <<{1}, {2}>>, commands |-> Env.commands,
           heartbeats |-> 0, failures |-> GapFailures,
           orphans |-> 0, partitions |-> 0, cuttable |-> {},
           restarts |-> 0, restartable |-> {}, clients |-> 0,
           replicas |-> {}, readers |-> {}, ticks |-> 0, endless |-> FALSE,
           timers |-> FALSE, built |-> FALSE, terms |-> MaxTerm,
           loglen |-> MaxLogLen, gap |-> TRUE]

InitGap == InitNodes /\ env = EnvGap

NextGap == ElectionSteps \/ WriteSteps \/ FailureSteps

SpecGap == InitGap /\ [][NextGap]_vars

\* Three elections and a write in a cluster one node of which is restarted.
RestartCrashes == 1

EnvRestart == [electors |-> <<{1}, {2}, {3}>>, commands |-> <<{1}>>,
               heartbeats |-> 0, failures |-> 0,
               orphans |-> 0, partitions |-> 0, cuttable |-> {},
               restarts |-> RestartCrashes, restartable |-> {3},
               clients |-> 0, replicas |-> {}, readers |-> {}, ticks |-> 0,
               endless |-> FALSE,
               timers |-> FALSE, built |-> FALSE, terms |-> MaxTerm,
               loglen |-> MaxLogLen, gap |-> FALSE]

InitRestart == InitNodes /\ env = EnvRestart

NextRestart == ElectionSteps \/ WriteSteps \/ RestartSteps

SpecRestart == InitRestart /\ [][NextRestart]_vars

\* Two elections, two writes to logs of one entry and a heartbeat round in
\* a cluster one node of which is restarted, each AppendEntries request
\* carrying the log it was built from.
RestartHeartbeats == 1
RestartLogLen == 1

EnvRestartWrites == [EnvRestart EXCEPT !.electors = <<{1}, {2}>>,
                                       !.commands = Env.commands,
                                       !.heartbeats = RestartHeartbeats,
                                       !.loglen = RestartLogLen,
                                       !.built = TRUE]

InitRestartWrites == InitNodes /\ env = EnvRestartWrites

NextRestartWrites ==
    ElectionSteps \/ WriteSteps \/ HeartbeatSteps \/ RestartSteps

SpecRestartWrites == InitRestartWrites /\ [][NextRestartWrites]_vars

\* An election, a write on the leader, and writes sent to the other nodes.
ClientWrites == 2

EnvClient == [Env EXCEPT !.electors = <<{1}>>, !.commands = <<{1}>>,
                         !.heartbeats = 0, !.clients = ClientWrites]

InitClient == InitNodes /\ env = EnvClient

NextClient == ElectionSteps \/ WriteSteps \/ ClientSteps

SpecClient == InitClient /\ [][NextClient]_vars

\* Two caches that are handed the same three commands; the first is read
\* and saved at any time and restarted once.
CacheTime == 2
CacheCrashes == 1

EnvCache == [Env EXCEPT !.electors = << >>,
                        !.commands = <<{3, 7}, {1, 5}, {4, 6}>>,
                        !.heartbeats = 0, !.replicas = {1, 2},
                        !.readers = {1}, !.ticks = CacheTime,
                        !.restarts = CacheCrashes, !.restartable = {1}]

InitCache == InitNodes /\ env = EnvCache

NextCache == CacheSteps \/ RestartSteps

SpecCache == InitCache /\ [][NextCache]_vars

\* A leader that is cut off for the second of three writes: set a, set a
\* again, set b.
RefusedWrites == 3
RefusedPartitions == 1

EnvRefused == [Env EXCEPT !.electors = <<{1}>>,
                          !.commands = <<{1}, {2}, {3}>>,
                          !.heartbeats = 0,
                          !.partitions = RefusedPartitions,
                          !.cuttable = {1},
                          !.loglen = RefusedWrites]

InitRefused == InitNodes /\ env = EnvRefused

NextRefused ==
    ElectionSteps \/ CacheWriteSteps \/ FailureSteps \/ PartitionSteps

SpecRefused == InitRefused /\ [][NextRefused]_vars

\* The start of a cluster on a network without failures.  Every request
\* is answered, so a node that has heard of a leader does not time out;
\* the random timeouts let any nodes time out together in the first term
\* and keep the elections of the last term apart.
BootElections == 4

EnvBoot == [Env EXCEPT !.electors = [k \in 1..BootElections |-> Nodes],
                       !.commands = << >>,
                       !.heartbeats = 0]

InitBoot == InitNodes /\ env = EnvBoot

\* _election_timeout_loop on such a network: last_heartbeat is too old.
TimelyElectionTimeout(n) ==
    /\ \A m \in Nodes : state[m] # "leader"
    /\ current_term[n] + 1 = MaxTerm => \A m \in Peers(n) : ~electing[m]
    /\ ElectionTimeout(n)

NextBoot ==
    \/ \E n \in Nodes : TimelyElectionTimeout(n)
    \/ \E n \in Nodes : BuildVoteRequests(n)
    \/ \E m \in msgs : HandleRequestVote(m)
    \/ \E n \in Nodes : \E p \in Peers(n) : HandleVoteResponse(n, p)
    \/ \E n \in Nodes : CountVotes(n)

\* The event loop of every node runs whatever is ready.
SpecBoot == InitBoot /\ [][NextBoot]_vars /\ WF_vars(NextBoot)

\* One write while a follower is cut off, and heartbeats without end.  A
\* heartbeat round waits RPC_TIMEOUT for a peer that does not answer, far
\* longer than an election timeout, so the follower that is still
\* connected may time out while another node is cut off.
CatchUpPartitions == 1

EnvCatchUp == [Env EXCEPT !.electors = <<{1}, {2}>>,
                          !.commands = <<{1}>>,
                          !.endless = TRUE,
                          !.partitions = CatchUpPartitions,
                          !.cuttable = {3}]

InitCatchUp == InitNodes /\ env = EnvCatchUp

\* _election_timeout_loop of a node that has not heard from a leader.
LateElectionTimeout(n) ==
    /\ (\A m \in Nodes : state[m] # "leader") \/ isolated # {}
    /\ ElectionTimeout(n)

VoteSteps ==
    \/ \E n \in Nodes : BuildVoteRequests(n)
    \/ \E m \in msgs : HandleRequestVote(m)
    \/ \E n \in Nodes : \E p \in Peers(n) : HandleVoteResponse(n, p)
    \/ \E n \in Nodes : CountVotes(n)

\* The follower is cut off once the cluster has a leader.
LateIsolate(n) ==
    /\ \E m \in Nodes : state[m] = "leader"
    /\ Isolate(n)

\* A heartbeat round that starts while no write and no election is under
\* way.
QuietHeartbeatRound(n) ==
    /\ proposing[n] = NoEntry
    /\ \A m \in Nodes : ~electing[m]
    /\ StartHeartbeatRound(n)

HeartbeatRounds ==
    \/ \E n \in Nodes : QuietHeartbeatRound(n)
    \/ \E n \in Nodes : EndHeartbeatRound(n)

NextCatchUp ==
    \/ \E n \in Nodes : LateElectionTimeout(n)
    \/ VoteSteps
    \/ WriteSteps
    \/ HeartbeatRounds
    \/ FailureSteps
    \/ \E n \in Nodes : LateIsolate(n)
    \/ \E n \in Nodes : Heal(n)

\* Every task that is ready runs, every request on a connected link is
\* handled and answered, a request on a cut link times out, and a leader
\* keeps starting heartbeat rounds.  Nothing obliges a client to write, a
\* node to time out, or a partition to start or to end.
FairCatchUp ==
    /\ WF_vars(VoteSteps)
    /\ WF_vars(\E n \in Nodes : \E k \in Kinds : BuildAppendEntries(n, k))
    /\ WF_vars(\E m \in msgs : HandleAppendEntries(m))
    /\ WF_vars(\E n \in Nodes : \E k \in Kinds : \E p \in Peers(n) :
                   HandleAppendResponse(n, k, p))
    /\ WF_vars(\E n \in Nodes : ReplicateCount(n))
    /\ WF_vars(HeartbeatRounds)
    /\ WF_vars(FailureSteps)

SpecCatchUp == InitCatchUp /\ [][NextCatchUp]_vars /\ FairCatchUp

\* A leader is elected, may take a write, and fails: its process is
\* killed, so a request to it is refused at once and an election among the
\* survivors is over long before the next election timeout.  The survivors
\* then time out, together at first if the random timeouts fall so, apart
\* afterwards.
FailoverTerms == 4
FailoverFailures == 1

EnvFailover == [Env EXCEPT !.electors = <<{1}, {2, 3}, {2, 3}, {2, 3}, {2, 3}>>,
                           !.commands = <<{1}>>,
                           !.heartbeats = 0,
                           !.partitions = FailoverFailures,
                           !.cuttable = {1},
                           !.terms = FailoverTerms]

InitFailover == InitNodes /\ env = EnvFailover

Survivors == Nodes \ isolated

\* The election that makes the first leader, before anything has failed.
FirstElectionTimeout(n) ==
    /\ used.elections = 0
    /\ ElectionTimeout(n)

\* The leader's process is killed while it leads.
LeaderFails(n) ==
    /\ state[n] = "leader"
    /\ Isolate(n)

\* The election timeouts that have fired since the first leader's own.
SurvivorElections == used.elections - 1

\* _election_timeout_loop of a survivor: no heartbeat arrives any more.
\* Only the first timeout of the other survivor may fall into a running
\* election.  A
\* survivor that has lost an election to a refusal drew its new timeout
\* after the refuser's timer was last reset, and ELECTION_TIMEOUT_MAX is
\* twice ELECTION_TIMEOUT_MIN, so the refuser times out before it does.
SurvivorElectionTimeout(n) ==
    /\ isolated # {}
    /\ n \in Survivors
    /\ \A m \in Survivors : state[m] # "leader"
    /\ (\E m \in Survivors : electing[m]) => SurvivorElections = 1
    /\ ~(/\ voted_for[n] = n
         /\ \E m \in Survivors \ {n} :
                current_term[m] = current_term[n] /\ voted_for[m] = None)
    /\ ElectionTimeout(n)

NextFailover ==
    \/ \E n \in Nodes : FirstElectionTimeout(n)
    \/ \E n \in Nodes : SurvivorElectionTimeout(n)
    \/ VoteSteps
    \/ WriteSteps
    \/ FailureSteps
    \/ \E n \in Nodes : LeaderFails(n)

\* Every task that is ready runs, every request between live nodes is
\* handled and answered, a request to the killed node fails, and a
\* survivor whose timer has run out starts an election.
FairFailover ==
    /\ WF_vars(VoteSteps)
    /\ WF_vars(ReplicationSteps)
    /\ WF_vars(FailureSteps)
    /\ WF_vars(\E n \in Nodes : SurvivorElectionTimeout(n))

SpecFailover == InitFailover /\ [][NextFailover]_vars /\ FairFailover

\* Three elections, two writes and two heartbeat rounds on a network that
\* delays requests and loses the requests or replies of a write.  A created
\* task takes its first step at the next turn of the event loop; the one
\* thing that runs before it here is a RequestVote handler that was ready
\* when the task was created.  Clients write one command at a time while
\* no election is under way, a heartbeat round starts between two writes
\* of its node, and a node times out while no write, round or election is
\* under way.
LateRoundTerms == 3
LateRoundHeartbeats == 2
LateRoundFailures == 2

EnvLateRound == [EnvGap EXCEPT !.electors = <<{1}, {2}, {2}>>,
                               !.terms = LateRoundTerms,
                               !.heartbeats = LateRoundHeartbeats,
                               !.failures = LateRoundFailures]

InitLateRound == InitNodes /\ env = EnvLateRound

NoWrite == \A m \in Nodes : proposing[m] = NoEntry
NoElection == \A m \in Nodes : ~electing[m]
NoRound == \A m \in Nodes : ~hbround[m]

QuietElectionTimeout(n) ==
    /\ NoNewTask
    /\ NoElection /\ NoWrite /\ NoRound
    /\ ElectionTimeout(n)

QuietPropose(n, c) ==
    /\ NoNewTask
    /\ NoElection /\ NoWrite
    /\ Propose(n, c)

IdleHeartbeatRound(n) ==
    /\ NoNewTask
    /\ NoWrite
    /\ StartHeartbeatRound(n)

\* The request or the reply of a write's AppendEntries is lost.
ProposalRpcFail(n, p) == NoNewTask /\ RpcFail(n, "pr", p)

\* The steps that run once every created task has taken its first step.
TurnSteps ==
    \/ \E n \in Nodes : \E p \in Peers(n) : HandleVoteResponse(n, p)
    \/ \E n \in Nodes : CountVotes(n)
    \/ \E m \in msgs : HandleAppendEntries(m)
    \/ \E n \in Nodes : \E k \in Kinds : \E p \in Peers(n) :
           HandleAppendResponse(n, k, p)
    \/ \E n \in Nodes : ReplicateCount(n)
    \/ \E n \in Nodes : EndHeartbeatRound(n)

NextLateRound ==
    \/ \E m \in msgs : HandleRequestVote(m)
    \/ \E n \in Nodes : BuildVoteRequests(n)
    \/ \E n \in Nodes : \E k \in Kinds : BuildAppendEntries(n, k)
    \/ NoNewTask /\ TurnSteps
    \/ \E n \in Nodes : QuietElectionTimeout(n)
    \/ \E n \in Nodes : \E c \in Commands : QuietPropose(n, c)
    \/ \E n \in Nodes : IdleHeartbeatRound(n)
    \/ \E n \in Nodes : \E p \in Peers(n) : ProposalRpcFail(n, p)

SpecLateRound == InitLateRound /\ [][NextLateRound]_vars

\* The runs of Spec with the election timers watched, and with each
\* AppendEntries request carrying the log it was built from.
EnvTimers == [Env EXCEPT !.timers = TRUE, !.built = TRUE]

InitTimers == InitNodes /\ env = EnvTimers

SpecTimers == InitTimers /\ [][Next]_vars

\* Two elections on two nodes and three writes (set a, set a again, set b),
\* with other steps of a node running between the creation of its RPC
\* tasks and their first step, on a network that loses two requests.
EnvThreeWrites == [EnvGap EXCEPT !.commands = EnvRefused.commands,
                                 !.failures = LossyFailures]

InitThreeWrites == InitNodes /\ env = EnvThreeWrites

NextThreeWrites == ElectionSteps \/ CacheWriteSteps \/ FailureSteps

SpecThreeWrites == InitThreeWrites /\ [][NextThreeWrites]_vars

\* An election, two writes and a heartbeat round in a cluster whose leader
\* saves its cache to its file (_persistence_loop) and is restarted.
EnvSnapshot == [EnvRestart EXCEPT !.electors = <<{1}>>, !.restartable = {1},
                                  !.commands = Env.commands,
                                  !.heartbeats = RestartHeartbeats]

InitSnapshot == InitNodes /\ env = EnvSnapshot

NextSnapshot ==
    \/ ElectionSteps
    \/ WriteSteps
    \/ HeartbeatSteps
    \/ RestartSteps
    \/ \E n \in Nodes : Save(n)

SpecSnapshot == InitSnapshot /\ [][NextSnapshot]_vars

\* A leader that takes a write, steps down for a candidate of the second
\* term and is elected again in the third, each AppendEntries task keeping
\* the term its request was stamped with.
EnvReelected == [EnvTimers EXCEPT !.electors = <<{1}, {2}, {1}>>,
                                  !.commands = <<{1}>>,
                                  !.heartbeats = 0,
                                  !.terms = LateRoundTerms,
                                  !.timers = FALSE]

InitReelected == InitNodes /\ env = EnvReelected

NextReelected == ElectionSteps \/ WriteSteps

SpecReelected == InitReelected /\ [][NextReelected]_vars

\* Three elections, three writes, one lost write request, one restart and
\* one heartbeat round: the first leader fills its log, a follower is
\* restarted with a reply of it still on its way, another node is elected
\* and writes, and the first leader is elected again.  A node times out, a
\* client writes and a process restarts while no election or round is
\* under way; the restart comes once a log is full, the later timeouts
\* after the restart and the heartbeat round after the last election.
EnvStaleIndex == [EnvLateRound EXCEPT !.electors = <<{1}, {3}, {1}>>,
                                      !.commands = EnvRefused.commands,
                                      !.heartbeats = RestartHeartbeats,
                                      !.restarts = RestartCrashes,
                                      !.failures = EnvRestart.restarts,
                                      !.restartable = {2},
                                      !.gap = FALSE]

InitStaleIndex == InitNodes /\ env = EnvStaleIndex

CalmElectionTimeout(n) ==
    /\ NoNewTask /\ NoElection /\ NoRound
    /\ used.elections > 0 => used.restarts = env.restarts
    /\ ElectionTimeout(n)

CalmPropose(n, c) == NoNewTask /\ NoElection /\ NoRound /\ Propose(n, c)

CalmHeartbeatRound(n) ==
    /\ NoNewTask /\ NoElection /\ NoRound
    /\ used.elections = Len(env.electors)
    /\ StartHeartbeatRound(n)

CalmRestart(n) ==
    /\ NoNewTask /\ NoElection /\ NoRound
    /\ \E l \in Nodes : Len(log[l]) = env.loglen
    /\ Restart(n)

NextStaleIndex ==
    \/ \E m \in msgs : HandleRequestVote(m)
    \/ \E n \in Nodes : BuildVoteRequests(n)
    \/ \E n \in Nodes : \E k \in Kinds : BuildAppendEntries(n, k)
    \/ NoNewTask /\ TurnSteps
    \/ \E n \in Nodes : CalmElectionTimeout(n)
    \/ \E n \in Nodes : \E c \in CacheCommands : CalmPropose(n, c)
    \/ \E n \in Nodes : CalmHeartbeatRound(n)
    \/ \E n \in Nodes : \E p \in Peers(n) : ProposalRpcFail(n, p)
    \/ \E n \in Nodes : CalmRestart(n)

SpecStaleIndex == InitStaleIndex /\ [][NextStaleIndex]_vars

C2_StateMachineSafety ==
    \A n \in Nodes : \A m \in Nodes :
        \A i \in 1..Min(Len(applied[n]), Len(applied[m])) :
            (applied[n][i] # Skipped /\ applied[m][i] # Skipped)
                => applied[n][i] = applied[m][i]

\* C3 (Leader Completeness): an entry that a leader has committed, with
\* the write acknowledged, is in the log of every leader of a later term.
C3_LeaderCompleteness ==
    \A a \in acks : \A n \in Nodes :
        (a.role = "leader" /\ a.ret = "true" /\ a.lterm = a.cterm
         /\ state[n] = "leader" /\ current_term[n] > a.lterm)
            => /\ Len(log[n]) >= a.index
               /\ log[n][a.index].term = a.lterm
               /\ log[n][a.index].command = a.command

C5_IndexOrder ==
    \A n \in Nodes :
        last_applied[n] <= commit_index[n] /\ commit_index[n] <= Len(log[n])

\* C6: when propose_command returns True, commit_index and last_applied
\* of the node are at least the index of the proposed entry, and the
\* command of the entry is the one the node has applied at that index.
C6_TrueAfterCommitAndApply ==
    \A a \in acks :
        a.ret = "true"
            => (a.ci >= a.index /\ a.la >= a.index /\ a.ran = a.command)

\* C7: a propose_command whose node is no longer leader when the
\* replication round ends does not return True and does not advance
\* commit_index.
C7_StepDownReturnsFalse ==
    \A a \in acks : a.role # "leader" => (a.ret # "true" /\ ~a.advanced)

\* C8: a write that runs from its proposal to its return on a node cut off
\* from all others is not accepted and does not advance commit_index, and
\* once the partition has healed its entry is not applied on any node.
C8_MinorityNeverCommits ==
    /\ \A a \in acks : ~a.cut
    /\ isolated = {} =>
           \A n \in Nodes : \A i \in 1..Len(applied[n]) :
               applied[n][i] \notin minority

\* C9: a leader that is not in the middle of a round has committed every
\* index of its term that a majority of match_index covers.
C9_CommitRule ==
    \A n \in Nodes :
        (state[n] = "leader" /\ proposing[n] = NoEntry /\ ~hbround[n])
            => \A N \in 1..Len(log[n]) :
                   (ReplicatedCount(n, N) >= Majority
                    /\ log[n][N].term = current_term[n])
                       => commit_index[n] >= N

\* C10: commit_index is advanced by counting replicas only on a leader,
\* and only to an index whose entry is of the leader's current term.
C10_CommitOnlyCurrentTerm ==
    \A a \in acks : a.advanced => (a.role = "leader" /\ a.lterm = a.cterm)

\* C11: a restarted node starts from the current_term, voted_for and log it
\* held when it last replied to an RPC.
C11_RestartKeepsState ==
    \A r \in restarts : r.got = r.held

\* C12: the current_term of a node never decreases in a step, whatever
\* elections, requests and replies it sees and whichever peers restart;
\* only the node's own restart is excepted.
C12_TermMonotonic ==
    [][\A n \in Nodes :
          \/ current_term'[n] >= current_term[n]
          \/ \E r \in restarts' : r \notin restarts /\ r.node = n]_vars

\* A restarted peer stands for election in a term below that of a node
\* which has answered its RequestVote.
C12_Witness ==
    \E r \in restarts : \E n \in Nodes :
        /\ n # r.node
        /\ r.held.term > 0
        /\ state[r.node] = "candidate"
        /\ task[r.node]["rv"][n].st = "resp"
        /\ task[r.node]["rv"][n].rterm > current_term[r.node]
        /\ current_term[n] = task[r.node]["rv"][n].rterm

\* C13: a write sent to a node that does not lead is answered with a
\* redirect (307) naming the leader of the last AppendEntries the node
\* accepted, and with unavailable (503) only if it has accepted none.
C13_RedirectToKnownLeader ==
    \A a \in answers :
        /\ a.hint # None => (a.status = 307 /\ a.leader = a.hint)
        /\ a.status = 503 => a.hint = None

\* The keys and values a cache holds.
Contents(c) == {<<c[i].key, c[i].value>> : i \in 1..Len(c)}

\* No command of the sequence carries a TTL.
NoTtl(commands) ==
    \A i \in 1..Len(commands) : Operation(commands[i]).ttl = None

\* C14: the contents of a cache depend on the applied commands only: two
\* nodes that have applied the same commands (none with a TTL) hold the
\* same keys and values, whatever was read on either and whenever the
\* commands were applied, and so does a fresh cache that applies them again.
C14_CacheDeterminism ==
    \A n \in env.replicas :
        (restarts = {} /\ NoTtl(applied[n])) =>
            /\ \A m \in env.replicas :
                   applied[m] = applied[n]
                       => Contents(cache[m]) = Contents(cache[n])
            /\ Contents(ApplyCommands(<< >>, applied[n], now[n]))
                   = Contents(cache[n])

\* C15: a cache never holds more than max_size entries.
C15_CacheBounded ==
    \A n \in Nodes : Len(cache[n]) <= MaxCacheSize

\* A full cache has taken a set of a key it did not hold.
C15_Witness ==
    \E n \in Nodes :
        /\ Len(applied[n]) > MaxCacheSize
        /\ Len(cache[n]) = MaxCacheSize
        /\ \A i \in 1..Len(applied[n]) : Operation(applied[n][i]).operation = "set"
        /\ Cardinality({Operation(applied[n][i]).key : i \in 1..Len(applied[n])})
               > MaxCacheSize

\* C16: a set of an absent key applied to a full cache evicts exactly the
\* entry of least recent access, the smallest key among equals, and a set
\* of a key the cache holds evicts nothing.
C16_EvictsLeastRecent ==
    [][LET KeyRank(k) == CASE k = "a" -> 1 [] k = "b" -> 2 [] OTHER -> 3
           Before(c, k, j) ==
               \/ EntryOf(c, k).accessed_at < EntryOf(c, j).accessed_at
               \/ /\ EntryOf(c, k).accessed_at = EntryOf(c, j).accessed_at
                  /\ KeyRank(k) <= KeyRank(j)
           Victim(c) ==
               CHOOSE k \in KeysOf(c) : \A j \in KeysOf(c) : Before(c, k, j)
       IN  \A n \in Nodes :
              (/\ Len(applied'[n]) = Len(applied[n]) + 1
               /\ Operation(applied'[n][Len(applied'[n])]).operation = "set")
              => LET k == Operation(applied'[n][Len(applied'[n])]).key IN
                 IF k \notin KeysOf(cache[n]) /\ Len(cache[n]) = MaxCacheSize
                 THEN KeysOf(cache'[n])
                          = (KeysOf(cache[n]) \ {Victim(cache[n])}) \cup {k}
                 ELSE KeysOf(cache'[n]) = KeysOf(cache[n]) \cup {k}]_vars

\* C17: on a leader, a get of a key returns the value of the last set of
\* the key that the leader has acknowledged in its term, and nothing if the
\* last acknowledged write to the key was a delete or a clear (no command
\* carries a TTL and the keys fit the cache).
C17_ReadYourWrites ==
    \A n \in Nodes : \A k \in CacheKeys :
        LET Writes(a) == Operation(a.command).operation = "clear"
                         \/ Operation(a.command).key = k
            mine == {a \in acks : /\ a.node = n /\ a.ret = "true"
                                  /\ a.role = "leader"
                                  /\ a.cterm = current_term[n] /\ Writes(a)}
            last == CHOOSE a \in mine : \A b \in mine : b.index <= a.index
        IN  (state[n] = "leader" /\ mine # {}) =>
                GetValue(cache[n], k, now[n]) =
                    IF Operation(last.command).operation = "set"
                    THEN Operation(last.command).value ELSE None

\* C18: a get of an entry whose TTL has elapsed returns nothing and removes
\* the entry; a get of an entry that has not expired returns its value and
\* leaves the key in the cache.
C18_ExpiredIsAbsent ==
    lastget.found =>
        IF lastget.expires_at # None /\ lastget.at > lastget.expires_at
        THEN lastget.value = None /\ ~lastget.kept
        ELSE lastget.value = lastget.stored /\ lastget.kept

\* A get has found an expired entry.
C18_Witness ==
    /\ lastget.found
    /\ lastget.expires_at # None
    /\ lastget.at > lastget.expires_at

C20_EveryNodeCatchesUp ==
    (\E a \in acks : a.ret = "true" /\ a.role = "leader") ~>
        \/ \A m \in Nodes : state[m] # "leader"
        \/ \A a \in acks : \A n \in Nodes :
               \/ n \in isolated
               \/ /\ last_applied[n] >= a.index
                  /\ GetValue(cache[n], Operation(a.command).key, now[n])
                         = Operation(a.command).value

\* C22: a node grants its vote to one candidate at most in a term: between
\* two replies of a node in the same term, a vote it holds is not changed.
C22_OneVotePerTerm ==
    [][\A n \in Nodes :
          (replied[n].vote # None /\ replied'[n].term = replied[n].term)
              => replied'[n].vote = replied[n].vote]_vars

\* C23: the reply to a RequestVote grants the vote exactly when the term of
\* the request is not behind the receiver's, the receiver's vote (none after
\* a higher term) is free or the candidate's, and the candidate's last
\* entry is of a later term than the receiver's, or of the same term and at
\* no smaller index.
C23_GrantExactly ==
    [][\A m \in msgs :
          (/\ m.type = "rv" /\ m.live /\ m \notin msgs'
           /\ task'[m.from]["rv"][m.to].st = "resp")
          => LET n == m.to
                 vote == IF m.term > current_term[n] THEN None ELSE voted_for[n]
                 last == IF Len(log[n]) = 0 THEN 0 ELSE log[n][Len(log[n])].term
             IN  (task'[m.from]["rv"][n].rok = "true") <=>
                     /\ m.term >= current_term[n]
                     /\ vote \in {None, m.candidate_id}
                     /\ \/ m.last_log_term > last
                        \/ /\ m.last_log_term = last
                           /\ m.last_log_index >= Len(log[n])]_vars

\* A vote refused for the log alone: the term is current and the vote free.
C23_Witness ==
    \E n \in Nodes : \E p \in Peers(n) :
        /\ task[n]["rv"][p].st = "resp"
        /\ task[n]["rv"][p].rok = "false"
        /\ task[n]["rv"][p].rterm = current_term[n]
        /\ voted_for[p] = None
        /\ Len(log[p]) > Len(log[n])

\* C24: a RequestVote of a term behind the receiver's is answered with no
\* vote and the receiver's term, and changes neither the receiver's role,
\* term, vote and log nor its election timer.
C24_StaleVoteRequest ==
    [][\A m \in msgs :
          (/\ m.type = "rv" /\ m.live /\ m \notin msgs'
           /\ task'[m.from]["rv"][m.to].st = "resp"
           /\ m.term < current_term[m.to])
          => LET n == m.to IN
             /\ task'[m.from]["rv"][n].rok = "false"
             /\ task'[m.from]["rv"][n].rterm = current_term[n]
             /\ state'[n] = state[n]
             /\ current_term'[n] = current_term[n]
             /\ voted_for'[n] = voted_for[n]
             /\ log'[n] = log[n]
             /\ last_heartbeat'[n] = last_heartbeat[n]]_vars

\* A candidate holds the refusal of a node of a later term that has voted.
C24_Witness ==
    \E n \in Nodes : \E p \in Peers(n) :
        /\ task[n]["rv"][p].st = "resp"
        /\ task[n]["rv"][p].rok = "false"
        /\ task[n]["rv"][p].rterm > current_term[n]
        /\ voted_for[p] # None
        /\ last_heartbeat[p] > 0

\* C25: an AppendEntries of a term behind the receiver's is answered with
\* no success and the receiver's term, and changes neither the receiver's
\* role, term, vote, log, commit_index and last_applied nor its election
\* timer.
C25_StaleAppendEntries ==
    [][\A m \in msgs :
          (/\ m.type = "ae" /\ m.live /\ m \notin msgs'
           /\ task'[m.from][m.tk][m.to].st = "resp"
           /\ m.term < current_term[m.to])
          => LET n == m.to IN
             /\ task'[m.from][m.tk][n].rok = "false"
             /\ task'[m.from][m.tk][n].rterm = current_term[n]
             /\ state'[n] = state[n]
             /\ current_term'[n] = current_term[n]
             /\ voted_for'[n] = voted_for[n]
             /\ log'[n] = log[n]
             /\ commit_index'[n] = commit_index[n]
             /\ last_applied'[n] = last_applied[n]
             /\ last_heartbeat'[n] = last_heartbeat[n]]_vars

\* A leader of an earlier term holds the refusal of a node that leads or
\* stands in a later term.
C25_Witness ==
    \E n \in Nodes : \E k \in {"hb", "pr"} : \E p \in Peers(n) :
        /\ task[n][k][p].st = "resp"
        /\ task[n][k][p].rok = "false"
        /\ task[n][k][p].rterm > current_term[n]
        /\ state[p] \in {"leader", "candidate"}

\* C26: an AppendEntries whose prev_log_index is positive and either lies
\* past the end of the receiver's log or names an entry of another term is
\* answered with no success, and leaves the receiver's log, commit_index
\* and last_applied as they were.
C26_PrevLogMismatch ==
    [][\A m \in msgs :
          (/\ m.type = "ae" /\ m.live /\ m \notin msgs'
           /\ task'[m.from][m.tk][m.to].st = "resp"
           /\ m.prev_log_index > 0
           /\ \/ m.prev_log_index > Len(log[m.to])
              \/ log[m.to][m.prev_log_index].term # m.prev_log_term)
          => LET n == m.to IN
             /\ task'[m.from][m.tk][n].rok = "false"
             /\ log'[n] = log[n]
             /\ commit_index'[n] = commit_index[n]
             /\ last_applied'[n] = last_applied[n]]_vars

\* The leader of the receiver's own term holds a refusal: the receiver's
\* log ends before the request's prev_log_index, or differs there, while
\* the leader's commit_index is ahead of the receiver's.
C26_Witness ==
    \E n \in Nodes : \E k \in {"hb", "pr"} : \E p \in Peers(n) :
        LET t == task[n][k][p] IN
        /\ t.st = "resp"
        /\ t.rok = "false"
        /\ t.rterm = current_term[n]
        /\ state[n] = "leader"
        /\ t.prev > 0
        /\ \/ t.prev > Len(log[p])
           \/ log[p][t.prev].term # log[n][t.prev].term
        /\ commit_index[n] > commit_index[p]

\* C27: an AppendEntries handled with success whose entries are all in the
\* receiver's log already, each at its index with its term, leaves the
\* receiver's log as it was; no entry past those it carries is removed.
C27_TruncateOnlyOnConflict ==
    [][\A m \in msgs :
          (/\ m.type = "ae" /\ m \notin msgs'
           /\ current_term'[m.to] = m.term
           /\ state'[m.to] = "follower"
           /\ m.term >= current_term[m.to]
           /\ m.prev_log_index + Len(m.entries) <= Len(log[m.to])
           /\ \A i \in 1..Len(m.entries) :
                  log[m.to][m.prev_log_index + i].term = m.entries[i].term)
          => log'[m.to] = log[m.to]]_vars

\* C28: after an AppendEntries is handled with success, the receiver's
\* log through prev_log_index + len(entries) equals, term and command at
\* every index, the sender's log through that index when the request was
\* built.
C28_MatchesLeaderLog ==
    [][\A m \in msgs :
          (/\ m.type = "ae" /\ m.live /\ m \notin msgs'
           /\ task'[m.from][m.tk][m.to].st = "resp"
           /\ task'[m.from][m.tk][m.to].rok = "true")
          => LET last == m.prev_log_index + Len(m.entries) IN
             /\ Len(log'[m.to]) >= last
             /\ Len(m.built) >= last
             /\ SubSeq(log'[m.to], 1, last) = SubSeq(m.built, 1, last)]_vars

\* C29: commit_index of a node never decreases, and apart from the count
\* of replicas at the end of a write it changes only in a step that
\* handles an AppendEntries with success and leader_commit above it, which
\* sets it to the smaller of leader_commit and the index of the last entry
\* the request covers, prev_log_index + len(entries).
C29_CommitIndexAdvance ==
    [][\A n \in Nodes :
          /\ commit_index'[n] >= commit_index[n]
          /\ (commit_index'[n] # commit_index[n] /\ proposing'[n] = proposing[n])
             => \E m \in msgs \ msgs' :
                    /\ m.type = "ae"
                    /\ m.to = n
                    /\ m.term >= current_term[n]
                    /\ m.leader_commit > commit_index[n]
                    /\ commit_index'[n] =
                           Min(m.leader_commit,
                               m.prev_log_index + Len(m.entries))]_vars

\* C30: when a leader processes an AppendEntries reply with success and a
\* term not above its own, it sets match_index of the peer to
\* prev_log_index + len(entries) of the request and next_index to one more,
\* whether the request carried entries or none.
C30_MatchIndexOnSuccess ==
    [][\A n \in Nodes : \A k \in {"hb", "pr"} : \A p \in Peers(n) :
          (/\ task[n][k][p].st = "resp"
           /\ task'[n][k][p].st # "resp"
           /\ state[n] = "leader"
           /\ task[n][k][p].rok = "true"
           /\ task[n][k][p].rterm <= current_term[n])
          => /\ match_index'[n][p] = task[n][k][p].prev + task[n][k][p].nent
             /\ next_index'[n][p] = match_index'[n][p] + 1]_vars

C31_NextIndexBacksUp ==
    [][/\ \A n \in Nodes : \A p \in Peers(n) : next_index'[n][p] >= 1
       /\ \A n \in Nodes : \A k \in {"hb", "pr"} : \A p \in Peers(n) :
              (/\ task[n][k][p].st = "resp"
               /\ task'[n][k][p].st = "done"
               /\ used' = used /\ Connected(n, p)
               /\ task[n][k][p].rok = "false"
               /\ task[n][k][p].rterm <= current_term[n])
              => next_index'[n][p] = Max(1, next_index[n][p] - 1)
       /\ \A m \in msgs' \ msgs :
              (m.type = "ae" /\ m.live /\ task[m.from][m.tk][m.to].st = "new")
              => /\ m.prev_log_index = next_index[m.from][m.to] - 1
                 /\ IF m.prev_log_index = 0 THEN m.prev_log_term = 0
                    ELSE /\ m.prev_log_index <= Len(log[m.from])
                         /\ m.prev_log_term = log[m.from][m.prev_log_index].term]_vars

\* C32: a node of any role that handles a RequestVote or an AppendEntries
\* of a term above its own, or processes a reply of such a term to one of
\* its own requests, takes that term, drops the vote it held and is a
\* follower afterwards; and a node becomes leader at the end of an election
\* only if it is still the candidate that voted for itself, so not after it
\* has seen a higher term in that election.
C32_HigherTermStepsDown ==
    [][/\ \A m \in msgs :
              (/\ m.live /\ m \notin msgs'
               /\ task'[m.from][m.tk][m.to].st = "resp"
               /\ m.term > current_term[m.to])
              => /\ current_term'[m.to] = m.term
                 /\ state'[m.to] = "follower"
                 /\ voted_for'[m.to] \in
                        {None} \cup (IF m.type = "rv" THEN {m.candidate_id} ELSE {})
       /\ \A n \in Nodes : \A k \in Kinds : \A p \in Peers(n) :
              (/\ task[n][k][p].st = "resp"
               /\ task'[n][k][p].st \in {"ok", "no", "done"}
               /\ used' = used /\ Connected(n, p)
               /\ task[n][k][p].rterm > current_term[n])
              => /\ current_term'[n] = task[n][k][p].rterm
                 /\ state'[n] = "follower"
                 /\ voted_for'[n] = None
       /\ \A n \in Nodes :
              (state[n] # "leader" /\ state'[n] = "leader")
              => /\ state[n] = "candidate"
                 /\ voted_for[n] = n
                 /\ current_term'[n] = current_term[n]]_vars

\* A candidate has the votes of a majority at the end of its election, and
\* is a follower without a vote: a reply carried a higher term.
C32_Witness ==
    \E n \in Nodes :
        /\ electing[n]
        /\ \A p \in Peers(n) : task[n]["rv"][p].st \in {"ok", "no"}
        /\ 1 + Cardinality({p \in Peers(n) : task[n]["rv"][p].st = "ok"}) >= Majority
        /\ state[n] = "follower"
        /\ voted_for[n] = None

\* C33: a node becomes leader only at the end of an election it started,
\* still a candidate, with grants from so many distinct peers that with its
\* own vote they are more than half of the cluster; a reply is counted as a
\* grant only if it is one, a grant is given in the term of the request to
\* the candidate that asked, and a grant that a candidate counts is of the
\* candidate's own term.
C33_LeaderHasMajority ==
    [][/\ \A n \in Nodes :
              (state[n] # "leader" /\ state'[n] = "leader")
              => /\ state[n] = "candidate"
                 /\ electing[n]
                 /\ current_term'[n] = current_term[n]
                 /\ 2 * (1 + Cardinality({p \in Peers(n) : task[n]["rv"][p].st = "ok"}))
                        > NumNodes
       /\ \A n \in Nodes : \A p \in Peers(n) :
              (task[n]["rv"][p].st = "resp" /\ task'[n]["rv"][p].st = "ok")
              => /\ task[n]["rv"][p].rok = "true"
                 /\ state'[n] = "candidate"
                        => task[n]["rv"][p].rterm = current_term[n]
       /\ \A m \in msgs :
              (/\ m.type = "rv" /\ m.live /\ m \notin msgs'
               /\ task'[m.from]["rv"][m.to].st = "resp"
               /\ task'[m.from]["rv"][m.to].rok = "true")
              => /\ task'[m.from]["rv"][m.to].rterm = m.term
                 /\ current_term'[m.to] = m.term
                 /\ voted_for'[m.to] = m.from]_vars

\* A leader elected by its own vote and one grant: one peer holds its vote
\* in its term, the other is in that term and has not voted for it.
C33_Witness ==
    \E n \in Nodes : \E p \in Peers(n) : \E q \in Peers(n) :
        /\ state[n] = "leader"
        /\ current_term[p] = current_term[n] /\ voted_for[p] = n
        /\ current_term[q] = current_term[n] /\ voted_for[q] # n

\* C34: a node hands the entries of its log to on_commit_callback in the
\* order of their indexes, each index once and none left out: whenever
\* last_applied advances, the commands handed over are those of the entries
\* at the indexes it passes, and the k-th command handed over on a node is
\* that of the entry at index k.
C34_AppliedInOrder ==
    [][\A n \in Nodes :
          last_applied'[n] > last_applied[n]
          => /\ Len(applied[n]) = last_applied[n]
             /\ Len(applied'[n]) = last_applied'[n]
             /\ SubSeq(applied'[n], 1, last_applied[n]) = applied[n]
             /\ \A i \in (last_applied[n] + 1)..last_applied'[n] :
                    /\ i <= Len(log'[n])
                    /\ applied'[n][i] = log'[n][i].command]_vars

\* C35 (Leader Append-Only): in a step that a node begins and ends as
\* leader, its log stays as it is or gains one entry at index len(log) + 1,
\* of the node's current term; no entry it holds is removed or replaced.
C35_LeaderAppendOnly ==
    [][\A n \in Nodes :
          (state[n] = "leader" /\ state'[n] = "leader")
          => \/ log'[n] = log[n]
             \/ /\ Len(log'[n]) = Len(log[n]) + 1
                /\ SubSeq(log'[n], 1, Len(log[n])) = log[n]
                /\ log'[n][Len(log'[n])].term = current_term[n]]_vars

\* A leader has appended an entry of its term behind an entry of an
\* earlier term that it received as a follower.
C35_Witness ==
    \E n \in Nodes :
        /\ state[n] = "leader"
        /\ Len(log[n]) = 2
        /\ log[n][1].term < current_term[n]
        /\ log[n][2].term = current_term[n]

\* C36: the cache of a node holds what the entries 1..last_applied of its
\* log give when they are applied in order to an empty cache (no command
\* carries a TTL here), also after the node has been restarted.
C36_CacheFromLog ==
    \A n \in Nodes :
        Contents(cache[n]) =
            Contents(ApplyCommands(<< >>,
                                   [i \in 1..last_applied[n] |->
                                       IF i <= Len(log[n]) THEN log[n][i].command
                                       ELSE Skipped],
                                   now[n]))

\* C37: a step in which a client's write is submitted leaves the log,
\* commit_index, last_applied and cache of every node that is not leader
\* as they were: a write sent to such a node appends nothing.
C37_NonLeaderWriteNoEffect ==
    [][\A n \in Nodes :
          (/\ state[n] # "leader"
           /\ \/ used'.proposals # used.proposals
              \/ used'.clients # used.clients)
          => /\ log'[n] = log[n]
             /\ commit_index'[n] = commit_index[n]
             /\ last_applied'[n] = last_applied[n]
             /\ cache'[n] = cache[n]]_vars

\* A node that does not lead has answered a write and holds no entry,
\* while the leader holds the entry of the write it has taken.
C37_Witness ==
    \E a \in answers : \E m \in Peers(a.node) :
        /\ state[m] = "leader"
        /\ Len(log[m]) = 1
        /\ state[a.node] # "leader"
        /\ Len(log[a.node]) = 0

\* C38: every AppendEntries request is built by a node that is leader at
\* that moment, elected in the term the request carries; a node that has
\* stepped down sends no request with the term it has adopted.
C38_BuiltByLeader ==
    [][\A m \in msgs' \ msgs :
          (m.type = "ae" /\ m.live /\ task[m.from][m.tk][m.to].st = "new")
          => /\ state[m.from] = "leader"
             /\ <<m.term, m.leader_id>> \in elected]_vars

\* C40: while a node stays leader of one term, match_index of a peer
\* never decreases, in whatever order the replies to its outstanding
\* requests are processed.
C40_MatchIndexMonotonic ==
    [][\A n \in Nodes : \A p \in Peers(n) :
          (/\ state[n] = "leader" /\ state'[n] = "leader"
           /\ current_term'[n] = current_term[n])
          => match_index'[n][p] >= match_index[n][p]]_vars

\* C39: a leader changes match_index and next_index of a peer only on a
\* reply to a request it sent as leader of its current term: the reply to
\* a request stamped with another term, sent before the node stepped down
\* and was elected again, leaves both as _become_leader set them.
C39_RepliesOfThisLeadership ==
    [][\A n \in Nodes : \A k \in {"hb", "pr"} : \A p \in Peers(n) :
          (/\ task[n][k][p].st = "resp"
           /\ task'[n][k][p].st = "done"
           /\ state[n] = "leader"
           /\ task[n][k][p].term # current_term[n])
          => /\ match_index'[n][p] = match_index[n][p]
             /\ next_index'[n][p] = next_index[n][p]]_vars

====
